---- MODULE Spec2Model ----
(***************************************************************************)
(* Model of py2tex.py: the LatexVisitor (an ast.NodeVisitor that turns a   *)
(* Python expression tree into LaTeX) and the py2tex entry point with its  *)
(* two textual substitutions.                                              *)
(*                                                                         *)
(* Strings are sequences of tokens.  A token is a piece of text that the   *)
(* program never splits: "\\left", "(", "\\right", ")", "\\frac", "a" ...  *)
(* "\left(" is the two tokens "\\left" "(" and "\right)" is "\\right" ")", *)
(* so that str.replace on "(\left(" and "\right))" sees the parentheses    *)
(* that belong to a \left( / \right) as well as the bare ones.  A name     *)
(* such as py2texdummyvar10 is "py2texdummyvar" "1" "0".                   *)
(*                                                                         *)
(* The node classes are the ones the visitor names: a number is an         *)
(* ast.Num.  sympy and asttokens are outside the repository; the model     *)
(* keeps of them what the visitor asks of them.                            *)
(***************************************************************************)
EXTENDS Integers, Sequences, FiniteSets, TLC

VARIABLES pc, tree, is_Add, s, out, nvisits

vars == <<pc, tree, is_Add, s, out, nvisits>>

(***************************************************************************)
(* Bounds of the input domain.                                             *)
(***************************************************************************)
MaxOps == 2

MaxArgs == 2

(***************************************************************************)
(* Python values.                                                          *)
(***************************************************************************)
\* None, as returned by ast.NodeVisitor.generic_visit
None == <<"<NoneType>">>

\* the result of a visit that raised an exception
Raised == <<"<raised>">>

Max(a, b) == IF a >= b THEN a ELSE b

RECURSIVE Concat(_)
Concat(parts) ==
    IF parts = <<>> THEN <<>> ELSE Head(parts) \o Concat(Tail(parts))

\* '%s' % x
Str(x) == IF x = None THEN <<"None">> ELSE x

\* 'fmt' % (parts): every part is formatted with %s
Fmt(parts) ==
    IF \E i \in DOMAIN parts : parts[i] = Raised
    THEN Raised
    ELSE Concat([i \in DOMAIN parts |-> Str(parts[i])])

RECURSIVE JoinStr(_, _)
JoinStr(sep, parts) ==
    IF parts = <<>> THEN <<>>
    ELSE IF Len(parts) = 1 THEN parts[1]
    ELSE parts[1] \o sep \o JoinStr(sep, Tail(parts))

\* sep.join(parts): a TypeError when a part is not a str
Join(sep, parts) ==
    IF \E i \in DOMAIN parts : parts[i] \in {Raised, None}
    THEN Raised
    ELSE JoinStr(sep, parts)

\* s.replace(old, new): leftmost, non-overlapping occurrences, left to right
RECURSIVE Replace(_, _, _)
Replace(str, old, new) ==
    IF Len(str) < Len(old) THEN str
    ELSE IF SubSeq(str, 1, Len(old)) = old
         THEN new \o Replace(SubSeq(str, Len(old) + 1, Len(str)), old, new)
         ELSE <<Head(str)>> \o Replace(Tail(str), old, new)

\* str(k) for a natural number k
RECURSIVE Digits(_)
Digits(k) ==
    IF k < 10 THEN <<ToString(k)>>
    ELSE Digits(k \div 10) \o <<ToString(k % 10)>>

(***************************************************************************)
(* Expression trees (the ast node classes the visitor meets).              *)
(***************************************************************************)
Name(id) == [type |-> "Name", id |-> id]

Num(n) == [type |-> "Num", n |-> n]

UnaryOp(op, operand) == [type |-> "UnaryOp", op |-> op, operand |-> operand]

BinOp(op, left, right) ==
    [type |-> "BinOp", op |-> op, left |-> left, right |-> right]

Call(func, args) == [type |-> "Call", func |-> Name(func), args |-> args]

Tuple(elts) == [type |-> "Tuple", elts |-> elts]

Compare(left, right) == [type |-> "Compare", left |-> left, right |-> right]

\* the operator classes of binary and unary operations
BinOps ==
    {"Add", "Sub", "Mult", "Div", "FloorDiv", "Mod", "Pow", "BitAnd",
     "BitOr", "BitXor", "LShift", "RShift", "MatMult"}

UnaryOps == {"UAdd", "USub", "Invert", "Not"}

LeftParen == <<"\\left", "(">>

RightParen == <<"\\right", ")">>

\* r'\left(%s\right)' % x
Wrap(x) == Fmt(<<LeftParen, x, RightParen>>)

(***************************************************************************)
(* Precedence table.                                                       *)
(***************************************************************************)
generic_prec == 0

\* prec(n.op): the prec_<class> method of the operator node
prec_op(op) ==
    CASE op \in {"Sub", "Add"} -> 300
      [] op \in {"Mult", "Div", "FloorDiv"} -> 400
      [] op = "Mod" -> 500
      [] op = "Pow" -> 700
      [] op \in {"Invert", "Not", "UAdd", "USub"} -> 800
      [] OTHER -> generic_prec

prec(n) ==
    CASE n.type \in {"Call", "Name", "Num"} -> 1000
      [] n.type \in {"UnaryOp", "BinOp"} -> prec_op(n.op)
      [] OTHER -> generic_prec

\* visit(n.op): the visit_<class> method of the operator node, or
\* generic_visit (None) when the class has none
visit_op(op) ==
    CASE op \in {"Sub", "USub"} -> <<"-">>
      [] op \in {"Add", "UAdd"} -> <<"+">>
      [] op = "Mult" -> <<" ">>
      [] op = "Mod" -> <<"\\bmod">>
      [] op = "LShift" -> <<"\\operatorname{shiftLeft}">>
      [] op = "RShift" -> <<"\\operatorname{shiftRight}">>
      [] op = "BitOr" -> <<"\\operatorname{or}">>
      [] op = "BitXor" -> <<"\\operatorname{xor}">>
      [] op = "BitAnd" -> <<"\\operatorname{and}">>
      [] op = "Invert" -> <<"\\operatorname{invert}">>
      [] op = "Not" -> <<"\\neg">>
      [] OTHER -> None

(***************************************************************************)
(* The symbolic evaluator (sympy), as the visitor uses it.  The evaluator  *)
(* treats a placeholder name as an opaque symbol and prints it verbatim.   *)
(***************************************************************************)
\* self._atok.get_text(n) of a name or a number
get_text(n) == IF n.type = "Name" THEN n.id ELSE n.n

\* isinstance(sympy.sympify(arg_text), sympy.Expr): a tuple is not an Expr
IsExpr(n) == n.type # "Tuple"

\* str(sympy.sympify(arg_text)) of a tuple of names and numbers: (a, 2)
SympyStr(n) ==
    <<"(">> \o JoinStr(<<",", " ">>, [j \in DOMAIN n.elts |-> get_text(n.elts[j])])
            \o <<")">>

\* sympy.latex of one argument of the assembled call: a symbol is printed
\* as its name, a tuple between \left( and \right)
SympyLatexArg(text) ==
    IF Head(text) = "("
    THEN LeftParen \o SubSeq(text, 2, Len(text) - 1) \o RightParen
    ELSE text

\* sympy.latex(sympy.sympify("func(arg,...)")) of an undefined function
SympyLatex(func_text, dummified_args) ==
    func_text \o <<"{">> \o LeftParen
        \o JoinStr(<<",", " ">>,
                   [i \in DOMAIN dummified_args |-> SympyLatexArg(dummified_args[i])])
        \o <<" ">> \o RightParen \o <<"}">>

(***************************************************************************)
(* LatexVisitor.                                                           *)
(***************************************************************************)
visit_UnaryOp(n, operand) ==
    IF prec_op(n.op) > prec(n.operand)
    THEN Fmt(<<visit_op(n.op), <<" ">>, LeftParen, operand, RightParen>>)
    ELSE Fmt(<<visit_op(n.op), <<" ">>, operand>>)

\* the condition of line 102: the left child is put between \left( \right)
GroupsLeft(n) == prec_op(n.op) > prec(n.left)

\* GroupsRight without the rule for the right child of a Sub
GroupsRight_NoSubRule(n) == prec_op(n.op) > prec(n.right)

\* the condition of lines 106-107
GroupsRight(n) ==
    \/ prec_op(n.op) > prec(n.right)
    \/ (n.op = "Sub" /\ prec_op(n.op) = prec(n.right))

\* visit_BinOp with the fractions built from the grouped children
visit_BinOp_GroupedFraction(n, vleft, vright) ==
    LET left == IF GroupsLeft(n) THEN Wrap(vleft) ELSE vleft
        right == IF GroupsRight(n) THEN Wrap(vright) ELSE vright
    IN  CASE n.op = "Div" ->
               Fmt(<<<<"\\frac", "{">>, left, <<"}", "{">>, right, <<"}">>>>)
          [] n.op = "FloorDiv" ->
               Fmt(<<<<"\\left", "\\lfloor", "\\frac", "{">>, left,
                     <<"}", "{">>, right, <<"}", "\\right", "\\rfloor">>>>)
          [] n.op = "Pow" ->
               Fmt(<<<<"(">>, left, <<")", "^", "{">>, vright, <<"}">>>>)
          [] OTHER -> Fmt(<<left, visit_op(n.op), right>>)

\* vleft and vright are self.visit(n.left) and self.visit(n.right)
visit_BinOp(n, vleft, vright) ==
    LET left == IF GroupsLeft(n) THEN Wrap(vleft) ELSE vleft
        right == IF GroupsRight(n) THEN Wrap(vright) ELSE vright
    IN  CASE n.op = "Div" ->
               Fmt(<<<<"\\frac", "{">>, vleft, <<"}", "{">>, vright, <<"}">>>>)
          [] n.op = "FloorDiv" ->
               Fmt(<<<<"\\left", "\\lfloor", "\\frac", "{">>, vleft,
                     <<"}", "{">>, vright, <<"}", "\\right", "\\rfloor">>>>)
          [] n.op = "Pow" ->
               Fmt(<<<<"(">>, left, <<")", "^", "{">>, vright, <<"}">>>>)
          [] OTHER -> Fmt(<<left, visit_op(n.op), right>>)

\* "py2texdummyvar{}".format(len(dummified_args)) for the argument at
\* position i (1-based), one entry being appended per argument
DummyVar(i) == <<"py2texdummyvar">> \o Digits(i - 1)

\* dummified_args after the loop over n.args
DummifiedArgs(n) ==
    [i \in DOMAIN n.args |->
        IF IsExpr(n.args[i]) THEN DummyVar(i) ELSE SympyStr(n.args[i])]

\* the keys of replacements, in insertion order
RECURSIVE ReplacementKeys(_, _)
ReplacementKeys(n, i) ==
    IF i > Len(n.args) THEN <<>>
    ELSE (IF IsExpr(n.args[i]) THEN <<i>> ELSE <<>>)
         \o ReplacementKeys(n, i + 1)

\* s = "%s(%s)" % (func_text, ",".join(dummified_args))
AssembledCall(n) ==
    get_text(n.func) \o <<"(">> \o JoinStr(<<",">>, DummifiedArgs(n)) \o <<")">>

\* for dummy in replacements.keys(): our_latex = our_latex.replace(...)
RECURSIVE ReplaceDummies(_, _, _)
ReplaceDummies(latex, keys, vargs) ==
    IF keys = <<>> THEN latex
    ELSE ReplaceDummies(Replace(latex, DummyVar(Head(keys)), Str(vargs[Head(keys)])),
                        Tail(keys), vargs)

\* visit_SumProduct with \sum_ for a Product too
visit_SumProduct_AlwaysSum(func, vbody, velts) ==
    LET body == IF is_Add THEN Wrap(vbody) ELSE vbody
    IN  Fmt(<<<<"\\sum", "_">>, <<" ", "{">>, velts[1], <<"=">>, velts[2],
              <<"}", "^", "{">>, velts[3], <<"}", " ">>, body>>)

\* the branch of visit_Call for Sum and Product: vbody is
\* self.visit(n.args[0]), velts[j] is self.visit(n.args[1].elts[j]) and
\* is_Add is sympy.sympify(body_source).is_Add
visit_SumProduct(func, vbody, velts) ==
    LET body == IF is_Add THEN Wrap(vbody) ELSE vbody
        sum_or_prod == IF func = <<"Sum">> THEN <<"\\sum", "_">>
                                         ELSE <<"\\prod", "_">>
    IN  Fmt(<<sum_or_prod, <<" ", "{">>, velts[1], <<"=">>, velts[2],
              <<"}", "^", "{">>, velts[3], <<"}", " ">>, body>>)

\* func is self.visit(n.func) and vargs[i] is self.visit(n.args[i])
visit_Call(n, func, vargs, velts) ==
    IF func \in {<<"Sum">>, <<"Product">>}
    THEN IF Len(n.args) < 2 \/ vargs[1] = Raised \/ Len(velts) # 3
         THEN Raised
         ELSE visit_SumProduct(func, vargs[1], velts)
    ELSE IF func = <<"fibonacci">>
    THEN Fmt(<<<<"F", "_", "{">>, Join(<<",", " ">>, vargs), <<"}">>>>)
    ELSE IF func = <<"lucas">>
    THEN Fmt(<<<<"L", "_", "{">>, Join(<<",", " ">>, vargs), <<"}">>>>)
    ELSE LET keys == ReplacementKeys(n, 1)
         IN  IF \E i \in DOMAIN keys : vargs[keys[i]] = Raised
             THEN Raised
             ELSE ReplaceDummies(SympyLatex(get_text(n.func), DummifiedArgs(n)),
                                 keys, vargs)

\* ast.NodeVisitor.visit: visit_<class>, or generic_visit, which visits the
\* children and returns None
RECURSIVE visit(_)
visit(n) ==
    CASE n.type = "Name" -> n.id
      [] n.type = "Num" -> n.n
      [] n.type = "UnaryOp" -> visit_UnaryOp(n, visit(n.operand))
      [] n.type = "BinOp" -> visit_BinOp(n, visit(n.left), visit(n.right))
      [] n.type = "Call" ->
           visit_Call(n, visit(n.func),
                      [i \in DOMAIN n.args |-> visit(n.args[i])],
                      IF Len(n.args) >= 2 /\ n.args[2].type = "Tuple"
                      THEN [j \in DOMAIN n.args[2].elts |-> visit(n.args[2].elts[j])]
                      ELSE <<>>)
      [] n.type = "Tuple" ->
           IF \E j \in DOMAIN n.elts : visit(n.elts[j]) = Raised
           THEN Raised ELSE None
      [] n.type = "Compare" ->
           IF Raised \in {visit(n.left), visit(n.right)} THEN Raised ELSE None

\* how often visit_BinOp calls self.visit(n.left) and self.visit(n.right)
LeftVisits(op) == IF op \in {"Div", "FloorDiv"} THEN 2 ELSE 1

RightVisits(op) == IF op \in {"Div", "FloorDiv", "Pow"} THEN 2 ELSE 1

RECURSIVE MaxOver(_, _)
MaxOver(f, i) == IF i > Len(f) THEN 1 ELSE Max(f[i], MaxOver(f, i + 1))

\* the number of times self.visit is invoked on the most visited node below
\* n during one self.visit(n) that does not raise
RECURSIVE MaxVisits(_)
MaxVisits(n) ==
    CASE n.type \in {"Name", "Num"} -> 1
      [] n.type = "UnaryOp" -> MaxVisits(n.operand)
      [] n.type = "BinOp" ->
           Max(LeftVisits(n.op) * MaxVisits(n.left),
               RightVisits(n.op) * MaxVisits(n.right))
      [] n.type = "Call" ->
           MaxOver([i \in DOMAIN n.args |->
                       IF n.args[i].type = "Tuple"
                       THEN IF n.func.id \in {<<"Sum">>, <<"Product">>}
                            THEN MaxOver([j \in DOMAIN n.args[i].elts |->
                                             MaxVisits(n.args[i].elts[j])], 1)
                            ELSE 1
                       ELSE MaxVisits(n.args[i])], 1)
      [] n.type = "Tuple" ->
           MaxOver([j \in DOMAIN n.elts |-> MaxVisits(n.elts[j])], 1)
      [] n.type = "Compare" -> Max(MaxVisits(n.left), MaxVisits(n.right))

\* the two substitutions of py2tex
cleanup(latex) ==
    Replace(Replace(latex, <<"(">> \o LeftParen, LeftParen),
            RightParen \o <<")">>, RightParen)

(***************************************************************************)
(* The inputs: every tree of at most MaxOps operations over one name, the  *)
(* calls of at most MaxArgs arguments, and the expressions of the          *)
(* repository's own examples.                                              *)
(***************************************************************************)
na == Name(<<"a">>)

nb == Name(<<"b">>)

nc == Name(<<"c">>)

ni == Name(<<"i">>)

nk == Name(<<"k">>)

RECURSIVE TreesOfSize(_)
TreesOfSize(m) ==
    IF m = 0 THEN {na}
    ELSE {UnaryOp(op, t) : op \in UnaryOps, t \in TreesOfSize(m - 1)}
         \cup UNION {{BinOp(op, l, r) : op \in BinOps, l \in TreesOfSize(j),
                                        r \in TreesOfSize(m - 1 - j)}
                     : j \in 0 .. (m - 1)}

OpTrees == UNION {TreesOfSize(m) : m \in 0 .. MaxOps}

\* every binary operation whose two children are operations on the name
TwoSided ==
    {BinOp(op, l, r) : op \in BinOps, l \in TreesOfSize(1), r \in TreesOfSize(1)}

\* op(op(a, b), c) and op(a, op(b, c))
LeftNested(op) == BinOp(op, BinOp(op, na, nb), nc)

RightNested(op) == BinOp(op, na, BinOp(op, nb, nc))

NonAssociative == {"Sub", "Div", "FloorDiv", "Mod", "Pow", "LShift", "RShift"}

\* 3-(1+2)/5
Ex3Minus ==
    BinOp("Sub", Num(<<"3">>),
          BinOp("Div", BinOp("Add", Num(<<"1">>), Num(<<"2">>)), Num(<<"5">>)))

\* a-(b+c)
ExSubAdd == BinOp("Sub", na, BinOp("Add", nb, nc))

\* ((a+b)**2)**3
ExPowPow ==
    BinOp("Pow", BinOp("Pow", BinOp("Add", na, nb), Num(<<"2">>)), Num(<<"3">>))

\* (-(a+b))**2
ExPowNeg == BinOp("Pow", UnaryOp("USub", BinOp("Add", na, nb)), Num(<<"2">>))

\* (a+b)*c % a
ExModMult == BinOp("Mod", BinOp("Mult", BinOp("Add", na, nb), nc), na)

\* a < b  and  a + (b < c)
ExCompare == Compare(na, nb)

ExAddCompare == BinOp("Add", na, Compare(nb, nc))

\* a/b/c/a
ExDivChain == BinOp("Div", BinOp("Div", BinOp("Div", na, nb), nc), na)

\* (a+b)/(a-b) and (a+b)//(a-b)
ExDivSums == BinOp("Div", BinOp("Add", na, nb), BinOp("Sub", na, nb))

ExFloorDivSums == BinOp("FloorDiv", BinOp("Add", na, nb), BinOp("Sub", na, nb))

Examples ==
    {Ex3Minus, ExSubAdd, ExPowPow, ExPowNeg, ExModMult, ExCompare,
     ExAddCompare, ExDivChain, ExDivSums, ExFloorDivSums}
    \cup {LeftNested(op) : op \in NonAssociative}
    \cup {RightNested(op) : op \in NonAssociative}

Limits == Tuple(<<ni, Num(<<"1">>), nk>>)

SumCalls ==
    {Call(f, <<body, Limits>>) :
        f \in {<<"Sum">>, <<"Product">>},
        body \in {ni, BinOp("Add", ni, nk), BinOp("Mult", ni, nk),
                  BinOp("Sub", ni, nk), BinOp("Pow", ni, nk), UnaryOp("USub", ni)}}

\* the arguments of the other calls
Args ==
    {na, Num(<<"2">>), BinOp("Add", na, nb), Name(DummyVar(1)), Name(DummyVar(2)),
     Tuple(<<na, Num(<<"2">>)>>), Tuple(<<Name(DummyVar(1)), nb>>),
     Call(<<"fibonacci">>, <<BinOp("Add", na, nb)>>)}

ArgLists == UNION {[1 .. m -> Args] : m \in 1 .. MaxArgs}

OtherCalls ==
    {Call(f, args) : f \in {<<"fibonacci">>, <<"lucas">>, <<"f">>},
                     args \in ArgLists}

\* f(a, a, a, a, a, a, a, a, a, a, b): eleven arguments
ExElevenArgs == Call(<<"f">>, [j \in 1 .. 11 |-> IF j = 11 THEN nb ELSE na])

Inputs ==
    OpTrees \cup TwoSided \cup Examples \cup SumCalls \cup OtherCalls
        \cup {ExElevenArgs}

IsSumCall(n) == n.type = "Call" /\ n.func.id \in {<<"Sum">>, <<"Product">>}

(***************************************************************************)
(* py2tex(expr).                                                           *)
(***************************************************************************)
\* atok = asttokens.ASTTokens(expr, parse=True): the tree of the input, and
\* the evaluator's answer to is_Add for the body of a Sum or a Product
Init ==
    /\ tree \in Inputs
    /\ is_Add \in (IF IsSumCall(tree) THEN BOOLEAN ELSE {FALSE})
    /\ pc = "parsed"
    /\ s = <<>>
    /\ out = <<>>
    /\ nvisits = 0

\* s = LatexVisitor(atok).visit(atok.tree.body[0].value)
Visit ==
    /\ pc = "parsed"
    /\ s' = visit(tree)
    /\ pc' = IF s' = Raised THEN "raised" ELSE "visited"
    /\ nvisits' = IF s' = Raised THEN 0 ELSE MaxVisits(tree)
    /\ UNCHANGED <<tree, is_Add, out>>

\* s = s.replace(...); s = s.replace(...); return s
\* (None has no replace: AttributeError)
Cleanup ==
    /\ pc = "visited"
    /\ IF s = None
       THEN pc' = "raised" /\ out' = out
       ELSE pc' = "returned" /\ out' = cleanup(s)
    /\ UNCHANGED <<tree, is_Add, s, nvisits>>

Next == Visit \/ Cleanup

Spec == Init /\ [][Next]_vars

TypeOK ==
    /\ pc \in {"parsed", "visited", "returned", "raised"}
    /\ tree \in Inputs
    /\ is_Add \in BOOLEAN

Visited == pc \in {"visited", "returned"}

(***************************************************************************)
(* Grouping of the children of a binary operation.                         *)
(***************************************************************************)
\* the precedences as the specification lists them
Precedence(n) ==
    LET p(op) == CASE op \in {"Add", "Sub"} -> 300
                   [] op \in {"Mult", "Div", "FloorDiv"} -> 400
                   [] op = "Mod" -> 500
                   [] op = "Pow" -> 700
                   [] op \in UnaryOps -> 800
                   [] OTHER -> 0
    IN  CASE n.type \in {"Name", "Num", "Call"} -> 1000
          [] n.type \in {"UnaryOp", "BinOp"} -> p(n.op)
          [] OTHER -> 0

\* the text of an operation op whose children are rendered as l and r
Rendering(op, l, r) ==
    CASE op = "Div" -> <<"\\frac", "{">> \o l \o <<"}", "{">> \o r \o <<"}">>
      [] op = "FloorDiv" ->
           <<"\\left", "\\lfloor", "\\frac", "{">> \o l \o <<"}", "{">> \o r
               \o <<"}", "\\right", "\\rfloor">>
      [] op = "Pow" -> <<"(">> \o l \o <<")", "^", "{">> \o r \o <<"}">>
      [] OTHER -> l \o Str(visit_op(op)) \o r

Grouped(x) == <<"\\left", "(">> \o x \o <<"\\right", ")">>

\* the left (right) child of the binary operation n appears in str between
\* \left( and \right)
LeftIsWrapped(n, str) ==
    LET l == Str(visit(n.left))
        r == Str(visit(n.right))
    IN  \E rr \in {r, Grouped(r)} : str = Rendering(n.op, Grouped(l), rr)

RightIsWrapped(n, str) ==
    LET l == Str(visit(n.left))
        r == Str(visit(n.right))
    IN  \E ll \in {l, Grouped(l)} : str = Rendering(n.op, ll, Grouped(r))

GroupLeft(n) == Precedence(n) > Precedence(n.left)

GroupRight(n) ==
    \/ Precedence(n) > Precedence(n.right)
    \/ (n.op = "Sub" /\ Precedence(n.right) = Precedence(n))

\* C1 as stated: in the text of every binary operation the left child is
\* wrapped in \left( \right) iff precedence(op) > precedence(left), and the
\* right child iff precedence(op) > precedence(right) or op is Sub and the
\* precedences are equal.
C1_EveryBinOpGroups ==
    (Visited /\ tree.type = "BinOp") =>
        /\ LeftIsWrapped(tree, s) <=> GroupLeft(tree)
        /\ RightIsWrapped(tree, s) <=> GroupRight(tree)

\* C1 amended: the left child is wrapped iff precedence(op) >
\* precedence(left) for every operator but Div and FloorDiv, the right child
\* iff precedence(op) > precedence(right) or (op is Sub and the precedences
\* are equal) for every operator but Div, FloorDiv and Pow; Div and FloorDiv
\* wrap neither child and Pow never wraps its exponent.  a-(b+c) is
\* a-\left(b+c\right) and 3-(1+2)/5 is 3-\frac{1+2}{5}.
C1_Grouping ==
    /\ (Visited /\ tree.type = "BinOp") =>
          /\ tree.op \notin {"Div", "FloorDiv"} =>
                (LeftIsWrapped(tree, s) <=> GroupLeft(tree))
          /\ tree.op \notin {"Div", "FloorDiv", "Pow"} =>
                /\ RightIsWrapped(tree, s) <=> GroupRight(tree)
                /\ s = Rendering(tree.op,
                                 IF GroupLeft(tree)
                                 THEN Grouped(Str(visit(tree.left)))
                                 ELSE Str(visit(tree.left)),
                                 IF GroupRight(tree)
                                 THEN Grouped(Str(visit(tree.right)))
                                 ELSE Str(visit(tree.right)))
          /\ tree.op \in {"Div", "FloorDiv"} => ~LeftIsWrapped(tree, s)
          /\ tree.op \in {"Div", "FloorDiv", "Pow"} => ~RightIsWrapped(tree, s)
    /\ (Visited /\ tree = ExSubAdd) =>
          /\ s = <<"a", "-", "\\left", "(", "b", "+", "c", "\\right", ")">>
          /\ s # <<"a", "-", "b", "+", "c">>
    /\ (pc = "returned" /\ tree = Ex3Minus) =>
          out = <<"3", "-", "\\frac", "{", "1", "+", "2", "}", "{", "5", "}">>

\* a Sub whose right child is an operation of the same precedence has been
\* translated
C1_Witness ==
    /\ pc = "returned"
    /\ tree = BinOp("Sub", na, BinOp("Sub", na, na))
    /\ out = <<"a", "-", "\\left", "(", "a", "-", "a", "\\right", ")">>

(***************************************************************************)
(* Division.                                                               *)
(***************************************************************************)
\* C6: a Div renders as \frac{L}{R} and a FloorDiv as
\* \left\lfloor\frac{L}{R}\right\rfloor, L and R being the translations of
\* the children with nothing added around them, whatever their precedences.
C6_Fraction ==
    (Visited /\ tree.type = "BinOp" /\ tree.op \in {"Div", "FloorDiv"}) =>
        LET frac == <<"\\frac", "{">> \o Str(visit(tree.left)) \o <<"}", "{">>
                        \o Str(visit(tree.right)) \o <<"}">>
        IN  s = IF tree.op = "Div"
                THEN frac
                ELSE <<"\\left", "\\lfloor">> \o frac \o <<"\\right", "\\rfloor">>

\* a Div whose children both bind less tightly than Div has been translated
C6_Witness ==
    /\ Visited
    /\ tree = ExDivSums
    /\ s = <<"\\frac", "{", "a", "+", "b", "}", "{", "a", "-", "b", "}">>

(***************************************************************************)
(* Sum and Product.                                                        *)
(***************************************************************************)
ExSumAdd == Call(<<"Sum">>, <<BinOp("Add", ni, nk), Limits>>)

ExSumMult == Call(<<"Sum">>, <<BinOp("Mult", ni, nk), Limits>>)

\* \sum_{index=lower}^{upper} body, gap being the text between \sum_ and {
SumText(n, gap) ==
    LET elts == n.args[2].elts
        body == visit(n.args[1])
    IN  (IF n.func.id = <<"Sum">> THEN <<"\\sum", "_">> ELSE <<"\\prod", "_">>)
            \o gap \o <<"{">> \o visit(elts[1]) \o <<"=">> \o visit(elts[2])
            \o <<"}", "^", "{">> \o visit(elts[3]) \o <<"}", " ">>
            \o (IF is_Add THEN Grouped(body) ELSE body)

\* C2 as stated: a Sum (Product) call returns exactly
\* \sum_{index=lower}^{upper} body (\prod_...), the body wrapped iff the
\* evaluator reports its source as additive.
C2_SumExact ==
    (Visited /\ IsSumCall(tree)) => s = SumText(tree, <<>>)

\* C2 amended: the string returned is \sum_ {index=lower}^{upper} body (and
\* \prod_ {...} for Product), with one space between \sum_ and the opening
\* brace, the body wrapped in \left( \right) iff the evaluator reports its
\* source as additive: Sum(i+k, (i,1,k)) gives
\* \sum_ {i=1}^{k} \left(i+k\right) and Sum(i*k, (i,1,k)) gives
\* \sum_ {i=1}^{k} i k.
C2_SumWithGap ==
    /\ (Visited /\ IsSumCall(tree)) => s = SumText(tree, <<" ">>)
    /\ (Visited /\ tree = ExSumAdd /\ is_Add) =>
          s = <<"\\sum", "_", " ", "{", "i", "=", "1", "}", "^", "{", "k", "}",
                " ", "\\left", "(", "i", "+", "k", "\\right", ")">>
    /\ (Visited /\ tree = ExSumMult /\ ~is_Add) =>
          s = <<"\\sum", "_", " ", "{", "i", "=", "1", "}", "^", "{", "k", "}",
                " ", "i", " ", "k">>

\* a Product whose body the evaluator reports as additive has been translated
C2_Witness ==
    /\ Visited
    /\ tree = Call(<<"Product">>, <<BinOp("Add", ni, nk), Limits>>)
    /\ is_Add
    /\ s = <<"\\prod", "_", " ", "{", "i", "=", "1", "}", "^", "{", "k", "}",
             " ", "\\left", "(", "i", "+", "k", "\\right", ")">>

(***************************************************************************)
(* The two substitutions of py2tex.                                        *)
(***************************************************************************)
\* C3: applying the two substitutions to the returned string again changes
\* nothing.
C3_Idempotent == pc = "returned" => cleanup(out) = out

RECURSIVE Balance(_, _)
\* the count of openers minus closers after reading str, or -1 once a closer
\* has come before its opener
Balance(str, open) ==
    IF open < 0 THEN -1
    ELSE IF str = <<>> THEN open
    ELSE Balance(Tail(str),
                 CASE Head(str) = "(" -> open + 1
                   [] Head(str) = ")" -> open - 1
                   [] OTHER -> open)

RECURSIVE IsOperationTree(_)
IsOperationTree(n) ==
    CASE n.type \in {"Name", "Num"} -> TRUE
      [] n.type = "UnaryOp" -> n.op \in UnaryOps /\ IsOperationTree(n.operand)
      [] n.type = "BinOp" ->
           /\ n.op \in BinOps \ {"MatMult"}
           /\ IsOperationTree(n.left)
           /\ IsOperationTree(n.right)
      [] OTHER -> FALSE

\* C9: the string returned for a tree of names, numbers, unary and binary
\* operations has balanced parentheses.
C9_Balanced ==
    (pc = "returned" /\ IsOperationTree(tree)) => Balance(out, 0) = 0

(***************************************************************************)
(* Unsupported constructs.                                                 *)
(***************************************************************************)
RECURSIVE HasUnsupported(_)
\* a node class or an operator class without a translation rule occurs in n
HasUnsupported(n) ==
    CASE n.type \in {"Name", "Num"} -> FALSE
      [] n.type = "UnaryOp" -> HasUnsupported(n.operand)
      [] n.type = "BinOp" ->
           n.op = "MatMult" \/ HasUnsupported(n.left) \/ HasUnsupported(n.right)
      [] n.type = "Compare" -> TRUE
      [] OTHER -> FALSE

\* C5: a tree with an unsupported construct is never translated to a string,
\* and no returned string holds the text None.
C5_FailsLoudly ==
    pc = "returned" =>
        /\ ~HasUnsupported(tree)
        /\ \A j \in DOMAIN out : out[j] # "None"

(***************************************************************************)
(* Visits.                                                                 *)
(***************************************************************************)
\* C7: no node is visited more often than a child of a single operation is
\* (twice), however deep the tree.
C7_ConstantVisits == Visited => nvisits <= 2

\* C10: the left-nested and the right-nested application of a
\* non-associative operator to three atoms are translated differently.
C10_NestingVisible ==
    (/\ Visited
     /\ tree.type = "BinOp"
     /\ tree.op \in NonAssociative
     /\ tree.left.type = "BinOp"
     /\ tree.left.op = tree.op
     /\ {tree.right.type, tree.left.left.type, tree.left.right.type}
            \subseteq {"Name", "Num"})
    => s # visit(BinOp(tree.op, tree.left.left,
                       BinOp(tree.op, tree.left.right, tree.right)))

(***************************************************************************)
(* Placeholders of the generic call translation.                           *)
(***************************************************************************)
IsGenericCall(n) ==
    /\ n.type = "Call"
    /\ n.func.id \notin {<<"Sum">>, <<"Product">>, <<"fibonacci">>, <<"lucas">>}

RECURSIVE Identifiers(_)
\* the names that occur in the input n
Identifiers(n) ==
    CASE n.type = "Name" -> {n.id}
      [] n.type = "Num" -> {}
      [] n.type = "UnaryOp" -> Identifiers(n.operand)
      [] n.type \in {"BinOp", "Compare"} ->
           Identifiers(n.left) \cup Identifiers(n.right)
      [] n.type = "Call" ->
           {n.func.id} \cup UNION {Identifiers(n.args[j]) : j \in DOMAIN n.args}
      [] n.type = "Tuple" -> UNION {Identifiers(n.elts[j]) : j \in DOMAIN n.elts}

IsPrefix(pat, str) == Len(pat) <= Len(str) /\ SubSeq(str, 1, Len(pat)) = pat

\* the number of places of str where pat occurs
Occurrences(str, pat) ==
    Cardinality({j \in 1 .. Len(str) : IsPrefix(pat, SubSeq(str, j, Len(str)))})

\* the placeholder names generated for the call n
Placeholders(n) ==
    {DummyVar(ReplacementKeys(n, 1)[j]) : j \in DOMAIN ReplacementKeys(n, 1)}

\* C4: the generic translation of a call with N expression arguments
\* generates N distinct placeholder names, none of them an identifier of the
\* input, each occurring exactly once in the assembled call text.
C4_PlaceholdersUnique ==
    (Visited /\ IsGenericCall(tree)) =>
        /\ Cardinality(Placeholders(tree))
              = Cardinality({j \in DOMAIN tree.args : IsExpr(tree.args[j])})
        /\ Placeholders(tree) \cap Identifiers(tree) = {}
        /\ \A name \in Placeholders(tree) :
              Occurrences(AssembledCall(tree), name) = 1

RECURSIVE ReplaceAtOnce(_, _, _)
\* latex with every placeholder name replaced, in one pass, by the text
\* recorded for it; a name is read to its end (py2texdummyvar10 is not
\* py2texdummyvar1 followed by 0)
ReplaceAtOnce(latex, n, vargs) ==
    IF latex = <<>> THEN <<>>
    ELSE LET here == {j \in DOMAIN n.args :
                         IsExpr(n.args[j]) /\ IsPrefix(DummyVar(j), latex)}
         IN  IF here = {}
             THEN <<Head(latex)>> \o ReplaceAtOnce(Tail(latex), n, vargs)
             ELSE LET j == CHOOSE x \in here :
                               \A y \in here : Len(DummyVar(y)) <= Len(DummyVar(x))
                  IN  Str(vargs[j])
                          \o ReplaceAtOnce(SubSeq(latex, Len(DummyVar(j)) + 1,
                                                  Len(latex)), n, vargs)

\* C8: the generic translation returns the evaluator's LaTeX of the
\* assembled call with every placeholder replaced by the translation of its
\* own argument.
C8_EachPlaceholderItsOwnText ==
    (Visited /\ IsGenericCall(tree)) =>
        s = ReplaceAtOnce(SympyLatex(get_text(tree.func), DummifiedArgs(tree)),
                          tree, [j \in DOMAIN tree.args |-> visit(tree.args[j])])

====
